---------------------------- MODULE Spec2Model ----------------------------
(***************************************************************************)
(* Model of src/src/finetune_gemma.py: the prompt builder                  *)
(* (prompt_template), the driver (run) and the inference loop (inference). *)
(*                                                                         *)
(* Text is a sequence of atoms.  An atom is a piece of text that the       *)
(* templates never split: a template literal ("<start_of_turn>", "user",   *)
(* a line break, "Code:", ...) or a piece of a record's field.             *)
(***************************************************************************)
EXTENDS Integers, Sequences, FiniteSets

VARIABLES
    pc,               \* position of the driver
    with_ocomment,    \* run(with_ocomment)
    with_inst,        \* run(with_inst)
    max_new_tokens,   \* run(max_new_tokens)
    record,           \* the record handed to prompt_template (SpecRender)
    rendered,         \* what prompt_template gave, one entry per split (SpecRender)
    csv,              \* rows of the CSV file in data_dir
    dataset,          \* split name -> rows
    split_i,          \* index of the split being built, in SplitOrder
    prompt_col,       \* prompts rendered so far for that split
    model_mode,       \* "unloaded", "train" or "eval"
    rec_i,            \* position of inference's loop in test_ds
    encoding,         \* input_ids of the record being generated for
    generate_out,     \* what model.generate returned for it
    generated_ids,    \* generated_ids after the slice
    generated_text,   \* batch_decode's result
    generated_comment,\* inference's result list
    output_comments,  \* run's variable: what inference returned
    printed           \* what run printed

vars == <<pc, with_ocomment, with_inst, max_new_tokens, record, rendered, csv,
          dataset, split_i, prompt_col, model_mode, rec_i, encoding, generate_out,
          generated_ids, generated_text, generated_comment, output_comments,
          printed>>

---------------------------------------------------------------------------
(* Bounds *)

\* longest field of a record handed to prompt_template, in atoms
MaxLen == 2
\* most rows in the CSV file
MaxRows == 2
\* largest max_new_tokens
MaxNewTokens == 2

---------------------------------------------------------------------------
(* Text *)

NL == "\n"
SOT == "<start_of_turn>"
EOT == "<end_of_turn>"

\* INST: the instruction text, one atom
INST == "Below is an instruction that describes a task. Write a response that appropriately completes the request.\n\nGo through the code changes from old code to new code and generate an updated code summary."

Fields == {"src_javadoc", "dst_method", "dst_javadoc"}

\* The atoms a field may hold: an ordinary word, a turn marker and the
\* instruction text itself (a CSV cell may hold any text).
Chars == {"model", SOT, INST}

Texts == UNION {[1..k -> Chars] : k \in 0..MaxLen}

\* A record is a mapping from the columns the CSV has to text.
Records == UNION {[D -> Texts] : D \in SUBSET Fields}

SplitOrder == <<"train", "valid", "test">>

Occurrences(pat, s) ==
    Cardinality({i \in 1..(Len(s) - Len(pat) + 1) : SubSeq(s, i, i + Len(pat) - 1) = pat})

Contains(pat, s) == Occurrences(pat, s) >= 1

IsPrefix(p, s) == Len(p) <= Len(s) /\ SubSeq(s, 1, Len(p)) = p

IsSuffix(p, s) == Len(p) <= Len(s) /\ SubSeq(s, Len(s) - Len(p) + 1, Len(s)) = p

---------------------------------------------------------------------------
(* prompt_template *)

\* mutant: the two-flag test comes first
UserBranchInstFirst(oc, inst) ==
    IF oc /\ inst THEN "ocomment_inst"
    ELSE IF oc THEN "ocomment"
    ELSE "code"

\* mutant: the first test is negated
UserBranchNegated(oc, inst) ==
    IF ~oc THEN "ocomment"
    ELSE IF oc /\ inst THEN "ocomment_inst"
    ELSE "code"

\* The if / elif / else of lines 22-32.
UserBranch(oc, inst) ==
    IF oc THEN "ocomment"
    ELSE IF oc /\ inst THEN "ocomment_inst"
    ELSE "code"

\* mutant: the old-comment template is filled with the target comment
USER_TEMPLATE_leak(rec, branch) ==
    CASE branch = "ocomment" ->
            <<SOT, "user", NL, "Old Comment:", NL>> \o rec["dst_javadoc"]
            \o <<NL, "New Code:", NL>> \o rec["dst_method"] \o <<NL, EOT, NL>>
      [] branch = "ocomment_inst" ->
            <<SOT, "user", NL, INST, NL, NL, "Old Comment:", NL>> \o rec["src_javadoc"]
            \o <<NL, "New Code:", NL>> \o rec["dst_method"] \o <<NL, EOT, NL>>
      [] OTHER ->
            <<SOT, "user", NL, "Code:", NL>> \o rec["dst_method"] \o <<NL, EOT, NL>>

\* USER_TEMPLATE, as the branch taken builds it.
USER_TEMPLATE(rec, branch) ==
    CASE branch = "ocomment" ->
            <<SOT, "user", NL, "Old Comment:", NL>> \o rec["src_javadoc"]
            \o <<NL, "New Code:", NL>> \o rec["dst_method"] \o <<NL, EOT, NL>>
      [] branch = "ocomment_inst" ->
            <<SOT, "user", NL, INST, NL, NL, "Old Comment:", NL>> \o rec["src_javadoc"]
            \o <<NL, "New Code:", NL>> \o rec["dst_method"] \o <<NL, EOT, NL>>
      [] OTHER ->
            <<SOT, "user", NL, "Code:", NL>> \o rec["dst_method"] \o <<NL, EOT, NL>>

\* The keys of the record USER_TEMPLATE reads in a branch.
UserKeys(branch) ==
    IF branch = "code" THEN {"dst_method"} ELSE {"src_javadoc", "dst_method"}

\* MODEL_TEMPLATE
MODEL_TEMPLATE(rec) ==
    <<SOT, "model", NL, "Target Comment:", NL>> \o rec["dst_javadoc"] \o <<EOT>>

\* A missing key raises KeyError: no prompt.
KeyError == [ok |-> FALSE, val |-> <<>>]

\* mutant: the model turn is appended for the "train" split only
prompt_template_train_only(rec, split, oc, inst) ==
    IF ~((UserKeys(UserBranch(oc, inst)) \cup {"dst_javadoc"}) \subseteq DOMAIN rec)
    THEN KeyError
    ELSE [ok |-> TRUE,
          val |-> IF split = "train"
                  THEN USER_TEMPLATE(rec, UserBranch(oc, inst)) \o MODEL_TEMPLATE(rec)
                  ELSE USER_TEMPLATE(rec, UserBranch(oc, inst))]

\* mutant: the model turn is appended for every split
prompt_template_always(rec, split, oc, inst) ==
    IF ~((UserKeys(UserBranch(oc, inst)) \cup {"dst_javadoc"}) \subseteq DOMAIN rec)
    THEN KeyError
    ELSE [ok |-> TRUE,
          val |-> USER_TEMPLATE(rec, UserBranch(oc, inst)) \o MODEL_TEMPLATE(rec)]

\* mutant: MODEL_TEMPLATE is built only where it is used
prompt_template_lazy(rec, split, oc, inst) ==
    IF ~((UserKeys(UserBranch(oc, inst))
            \cup (IF split = "test" THEN {} ELSE {"dst_javadoc"})) \subseteq DOMAIN rec)
    THEN KeyError
    ELSE [ok |-> TRUE,
          val |-> IF split = "test"
                  THEN USER_TEMPLATE(rec, UserBranch(oc, inst))
                  ELSE USER_TEMPLATE(rec, UserBranch(oc, inst)) \o MODEL_TEMPLATE(rec)]

\* prompt_template(record, split, with_ocomment, with_inst): USER_TEMPLATE and
\* MODEL_TEMPLATE are both built (lines 22-35) before the split is looked at.
prompt_template(rec, split, oc, inst) ==
    IF ~((UserKeys(UserBranch(oc, inst)) \cup {"dst_javadoc"}) \subseteq DOMAIN rec)
    THEN KeyError
    ELSE [ok |-> TRUE,
          val |-> IF split = "test"
                  THEN USER_TEMPLATE(rec, UserBranch(oc, inst))
                  ELSE USER_TEMPLATE(rec, UserBranch(oc, inst)) \o MODEL_TEMPLATE(rec)]

---------------------------------------------------------------------------
(* SpecRender: prompt_template applied to one record, once per split, as    *)
(* run's loop over the splits does with the rows of the one file.           *)

Idle ==
    /\ max_new_tokens = 1
    /\ csv = <<>>
    /\ dataset = <<>>
    /\ split_i = 1
    /\ prompt_col = <<>>
    /\ model_mode = "unloaded"
    /\ rec_i = 1
    /\ encoding = <<>>
    /\ generate_out = <<>>
    /\ generated_ids = <<>>
    /\ generated_text = <<>>
    /\ generated_comment = <<>>
    /\ output_comments = <<>>
    /\ printed = <<>>

InitRender ==
    /\ pc = "render"
    /\ with_ocomment \in BOOLEAN
    /\ with_inst \in BOOLEAN
    /\ record \in Records
    /\ rendered = <<>>
    /\ Idle

\* One call of prompt_template, for the next split.
RenderSplit ==
    /\ pc = "render"
    /\ Len(rendered) < Len(SplitOrder)
    /\ rendered' = Append(rendered,
            [split |-> SplitOrder[Len(rendered) + 1],
             branch |-> UserBranch(with_ocomment, with_inst),
             res |-> prompt_template(record, SplitOrder[Len(rendered) + 1],
                                    with_ocomment, with_inst)])
    /\ UNCHANGED <<pc, with_ocomment, with_inst, max_new_tokens, record, csv,
                   dataset, split_i, prompt_col, model_mode, rec_i, encoding,
                   generate_out, generated_ids, generated_text, generated_comment,
                   output_comments, printed>>

NextRender == RenderSplit

SpecRender == InitRender /\ [][NextRender]_vars

---------------------------------------------------------------------------
(* Spec: run, from load_dataset to print *)

\* The rows a CSV file may hold: the columns it has are the same in all its
\* rows, and the rows differ in the new code.
CsvColumnSets == {Fields, Fields \ {"src_javadoc"}, Fields \ {"dst_javadoc"}}

CsvMethods == {<<"int f(){return 1;}">>, <<"void g(){}">>}

CsvRows(cols) ==
    {[f \in cols |-> CASE f = "dst_method" -> m
                       [] f = "src_javadoc" -> <<"old">>
                       [] OTHER -> <<"returns one">>] : m \in CsvMethods}

CsvFiles == UNION {UNION {[1..k -> CsvRows(cols)] : k \in 0..MaxRows} : cols \in CsvColumnSets}

\* data_files: the three splits are read from the same file.
Splits == {"train", "valid", "test"}

BOS == "<bos>"
EOS == "<eos>"
PAD == "<pad>"
SpecialTokens == {BOS, EOS, PAD}

\* The tokens the model may sample.
GenVocab == {"tok", EOS}

\* tokenizer(record["prompt"], add_special_tokens=True).input_ids
Tokenize(text) == <<BOS>> \o text

\* The new tokens model.generate may add after the prompt: at most n.
NewTokens(n) == UNION {[1..k -> GenVocab] : k \in 0..n}

\* mutant: the slice starts one position early
SliceNewOffByOne(out, enc) == SubSeq(out, Len(enc), Len(out))

\* generated_ids[:, encoding.input_ids.shape[1]:]
SliceNew(out, enc) == SubSeq(out, Len(enc) + 1, Len(out))

IsOrdinary(t) == t \notin SpecialTokens

\* tokenizer.batch_decode(generated_ids, skip_special_tokens=True): a list with
\* the one text of the batch.
BatchDecode(ids) == <<SelectSeq(ids, IsOrdinary)>>

\* dataset[split].add_column("prompt", prompt_col), for one row
AddPrompt(row, p) ==
    [f \in (DOMAIN row) \cup {"prompt"} |-> IF f = "prompt" THEN p ELSE row[f]]

\* mutant: the records are taken from the end
TestRecordReversed(ds, i) == ds[Len(ds) - i + 1]

\* for record in tqdm(test_ds): the i-th record
TestRecord(ds, i) == ds[i]

\* mutant: the return is inside the loop
LoopDoneEarly(ds, i) == i > 1 \/ i > Len(ds)

\* the loop over test_ds is over
LoopDone(ds, i) == i > Len(ds)

Init ==
    /\ pc = "load"
    /\ with_ocomment \in BOOLEAN
    /\ with_inst \in BOOLEAN
    /\ max_new_tokens \in 1..MaxNewTokens
    /\ csv \in CsvFiles
    /\ record = <<>>
    /\ rendered = <<>>
    /\ dataset = <<>>
    /\ split_i = 1
    /\ prompt_col = <<>>
    /\ model_mode = "unloaded"
    /\ rec_i = 1
    /\ encoding = <<>>
    /\ generate_out = <<>>
    /\ generated_ids = <<>>
    /\ generated_text = <<>>
    /\ generated_comment = <<>>
    /\ output_comments = <<>>
    /\ printed = <<>>

\* dataset = load_dataset("csv", data_dir=data_dir, data_files=data_files)
LoadDataset ==
    /\ pc = "load"
    /\ dataset' = [s \in Splits |-> csv]
    /\ pc' = "build"
    /\ UNCHANGED <<with_ocomment, with_inst, max_new_tokens, record, rendered, csv,
                   split_i, prompt_col, model_mode, rec_i, encoding, generate_out,
                   generated_ids, generated_text, generated_comment,
                   output_comments, printed>>

\* prompt_col.append(prompt_template(record, split, with_ocomment, with_inst));
\* a KeyError ends the process.
BuildPrompt ==
    /\ pc = "build"
    /\ Len(prompt_col) < Len(dataset[SplitOrder[split_i]])
    /\ LET r == prompt_template(dataset[SplitOrder[split_i]][Len(prompt_col) + 1],
                               SplitOrder[split_i], with_ocomment, with_inst)
       IN  IF r.ok
           THEN prompt_col' = Append(prompt_col, r.val) /\ pc' = pc
           ELSE prompt_col' = prompt_col /\ pc' = "crashed"
    /\ UNCHANGED <<with_ocomment, with_inst, max_new_tokens, record, rendered, csv,
                   dataset, split_i, model_mode, rec_i, encoding, generate_out,
                   generated_ids, generated_text, generated_comment,
                   output_comments, printed>>

\* dataset[split] = dataset[split].add_column("prompt", prompt_col), and the
\* next split (or training, after the last).
AddColumn ==
    /\ pc = "build"
    /\ Len(prompt_col) = Len(dataset[SplitOrder[split_i]])
    /\ dataset' = [dataset EXCEPT ![SplitOrder[split_i]] =
                        [i \in 1..Len(@) |-> AddPrompt(@[i], prompt_col[i])]]
    /\ prompt_col' = <<>>
    /\ IF split_i < Len(SplitOrder)
       THEN split_i' = split_i + 1 /\ pc' = pc
       ELSE split_i' = split_i /\ pc' = "train"
    /\ UNCHANGED <<with_ocomment, with_inst, max_new_tokens, record, rendered, csv,
                   model_mode, rec_i, encoding, generate_out, generated_ids,
                   generated_text, generated_comment, output_comments, printed>>

\* model, tokenizer = training(dataset["train"], dataset["valid"])
training ==
    /\ pc = "train"
    /\ model_mode' = "train"
    /\ pc' = "inference"
    /\ UNCHANGED <<with_ocomment, with_inst, max_new_tokens, record, rendered, csv,
                   dataset, split_i, prompt_col, rec_i, encoding, generate_out,
                   generated_ids, generated_text, generated_comment,
                   output_comments, printed>>

\* inference, up to its loop: model.eval(); generated_comment = []
InferenceBegin ==
    /\ pc = "inference"
    /\ model_mode' = "eval"
    /\ generated_comment' = <<>>
    /\ rec_i' = 1
    /\ pc' = "generate"
    /\ UNCHANGED <<with_ocomment, with_inst, max_new_tokens, record, rendered, csv,
                   dataset, split_i, prompt_col, encoding, generate_out,
                   generated_ids, generated_text, output_comments, printed>>

\* One pass of inference's loop: tokenize, generate, slice, decode, append.
InferRecord ==
    /\ pc = "generate"
    /\ ~LoopDone(dataset["test"], rec_i)
    /\ \E new \in NewTokens(max_new_tokens) :
          LET enc == Tokenize(TestRecord(dataset["test"], rec_i)["prompt"])
              out == enc \o new
              ids == SliceNew(out, enc)
          IN  /\ encoding' = enc
              /\ generate_out' = out
              /\ generated_ids' = ids
              /\ generated_text' = BatchDecode(ids)
              /\ generated_comment' = Append(generated_comment, BatchDecode(ids))
    /\ rec_i' = rec_i + 1
    /\ UNCHANGED <<pc, with_ocomment, with_inst, max_new_tokens, record, rendered,
                   csv, dataset, split_i, prompt_col, model_mode, output_comments,
                   printed>>

\* return generated_comment, into run's output_comments
InferenceReturn ==
    /\ pc = "generate"
    /\ LoopDone(dataset["test"], rec_i)
    /\ output_comments' = generated_comment
    /\ pc' = "print"
    /\ UNCHANGED <<with_ocomment, with_inst, max_new_tokens, record, rendered, csv,
                   dataset, split_i, prompt_col, model_mode, rec_i, encoding,
                   generate_out, generated_ids, generated_text, generated_comment,
                   printed>>

\* print(output_comments): the list is read, not consumed
PrintOutput ==
    /\ pc = "print"
    /\ printed' = output_comments
    /\ pc' = "done"
    /\ UNCHANGED <<with_ocomment, with_inst, max_new_tokens, record, rendered, csv,
                   dataset, split_i, prompt_col, model_mode, rec_i, encoding,
                   generate_out, generated_ids, generated_text, generated_comment,
                   output_comments>>

Next ==
    \/ LoadDataset
    \/ BuildPrompt
    \/ AddColumn
    \/ training
    \/ InferenceBegin
    \/ InferRecord
    \/ InferenceReturn
    \/ PrintOutput

Spec == Init /\ [][Next]_vars

---------------------------------------------------------------------------
(* Properties of prompt_template, checked under SpecRender *)

ModelMarker == <<SOT, "model">>

\* The user turn of a rendered prompt: the whole prompt of the "test" split,
\* and for the other splits the prompt without the model turn at its end.
UserTurnOf(e) ==
    IF e.split = "test" THEN e.res.val
    ELSE SubSeq(e.res.val, 1, Len(e.res.val) - (Len(record["dst_javadoc"]) + 6))

\* C1: with split "test" prompt_template returns the user turn only, for every
\* record and flags: the prompt ends where the user turn ends (the new code and
\* the closing "<end_of_turn>" line), no model turn follows it, and the only
\* "<start_of_turn>model" in it is text the record's own fields carry.
C1_TestIsUserTurnOnly ==
    \A i \in 1..Len(rendered) :
        (rendered[i].split = "test" /\ rendered[i].res.ok) =>
            LET v == rendered[i].res.val IN
            /\ IsSuffix(record["dst_method"] \o <<NL, EOT, NL>>, v)
            /\ ~IsSuffix(<<SOT, "model", NL, "Target Comment:", NL>>
                            \o record["dst_javadoc"] \o <<EOT>>, v)
            /\ Occurrences(ModelMarker, v)
                 = Occurrences(ModelMarker, record["dst_method"])
                   + (IF with_ocomment
                      THEN Occurrences(ModelMarker, record["src_javadoc"]) ELSE 0)

C1_Witness ==
    /\ Len(rendered) = 3
    /\ rendered[3].split = "test"
    /\ rendered[3].res.ok
    /\ with_ocomment
    /\ record["dst_javadoc"] = <<"model">>
    /\ record["dst_method"] = <<"model">>
    /\ rendered[3].res.val = <<SOT, "user", NL, "Old Comment:", NL>>
          \o record["src_javadoc"] \o <<NL, "New Code:", NL, "model", NL, EOT, NL>>

\* C2: for the splits "train" and "valid" the prompt is the prompt of the
\* "test" split for the same record and flags, followed by
\* "<start_of_turn>model\nTarget Comment:\n" + dst_javadoc + "<end_of_turn>".
C2_NonTestIsTestPlusModelTurn ==
    Len(rendered) = 3 =>
        \A i \in 1..2 :
            rendered[i].res.ok =>
                /\ rendered[i].split \in {"train", "valid"}
                /\ rendered[3].split = "test"
                /\ rendered[3].res.ok
                /\ rendered[i].res.val
                     = rendered[3].res.val
                       \o <<SOT, "model", NL, "Target Comment:", NL>>
                       \o record["dst_javadoc"] \o <<EOT>>

C2_Witness ==
    /\ Len(rendered) = 3
    /\ rendered[2].split = "valid"
    /\ rendered[2].res.ok
    /\ ~with_ocomment
    /\ record["dst_method"] = <<"model", "model">>
    /\ record["dst_javadoc"] = <<SOT, "model">>
    /\ Len(rendered[2].res.val) = Len(rendered[3].res.val) + 8

\* C3: with flags (false, false) and a split other than "test" the prompt is
\* exactly "<start_of_turn>user\nCode:\n" + dst_method + "\n<end_of_turn>\n"
\* + "<start_of_turn>model\nTarget Comment:\n" + dst_javadoc + "<end_of_turn>";
\* src_javadoc is no part of it.
C3_CodeOnlyPrompt ==
    \A i \in 1..Len(rendered) :
        (~with_ocomment /\ ~with_inst /\ rendered[i].split # "test"
                /\ {"dst_method", "dst_javadoc"} \subseteq DOMAIN record) =>
            /\ rendered[i].res.ok
            /\ rendered[i].res.val
                 = <<SOT, "user", NL, "Code:", NL>> \o record["dst_method"]
                   \o <<NL, EOT, NL>>
                   \o <<SOT, "model", NL, "Target Comment:", NL>>
                   \o record["dst_javadoc"] \o <<EOT>>

C3_Witness ==
    /\ ~with_ocomment
    /\ ~with_inst
    /\ Len(rendered) >= 1
    /\ rendered[1].split = "train"
    /\ DOMAIN record = Fields
    /\ record["src_javadoc"] = <<INST>>
    /\ rendered[1].res.val
         = <<SOT, "user", NL, "Code:", NL, "model", NL, EOT, NL,
             SOT, "model", NL, "Target Comment:", NL, "model", "model", EOT>>

\* C4: with flags (true, false), for every split, the user turn of the prompt
\* contains src_javadoc and dst_method verbatim and has no instruction
\* preamble: it does not open with the instruction, and the instruction text
\* is in it only as often as the two fields carry it.
C4_OldCommentPrompt ==
    \A i \in 1..Len(rendered) :
        (with_ocomment /\ ~with_inst /\ DOMAIN record = Fields) =>
            /\ rendered[i].res.ok
            /\ LET ut == UserTurnOf(rendered[i]) IN
               /\ Contains(record["src_javadoc"], ut)
               /\ Contains(record["dst_method"], ut)
               /\ ~IsPrefix(<<SOT, "user", NL, INST>>, ut)
               /\ Occurrences(<<INST>>, ut)
                    = Occurrences(<<INST>>, record["src_javadoc"])
                      + Occurrences(<<INST>>, record["dst_method"])

C4_Witness ==
    /\ with_ocomment
    /\ ~with_inst
    /\ Len(rendered) = 3
    /\ DOMAIN record = Fields
    /\ record["src_javadoc"] = <<"model", SOT>>
    /\ record["dst_method"] = <<SOT>>
    /\ record["dst_javadoc"] = <<"model">>
    /\ UserTurnOf(rendered[1])
         = <<SOT, "user", NL, "Old Comment:", NL, "model", SOT, NL,
             "New Code:", NL, SOT, NL, EOT, NL>>

\* C5: when with_inst is true the user turn of the prompt opens with the
\* instruction text; with both flags true it is instruction + old comment +
\* new code.
C5_InstIncluded ==
    \A i \in 1..Len(rendered) :
        (with_inst /\ rendered[i].res.ok) =>
            /\ IsPrefix(<<SOT, "user", NL, INST, NL, NL>>, rendered[i].res.val)
            /\ with_ocomment =>
                  UserTurnOf(rendered[i])
                    = <<SOT, "user", NL, INST, NL, NL, "Old Comment:", NL>>
                      \o record["src_javadoc"] \o <<NL, "New Code:", NL>>
                      \o record["dst_method"] \o <<NL, EOT, NL>>

\* C6 as claimed: rendering fails for every record that lacks one of the three
\* fields, whatever the split and flags, and for no record that has all three.
C6_FailsIffAnyFieldMissing ==
    \A i \in 1..Len(rendered) :
        (~rendered[i].res.ok) <=> (DOMAIN record # Fields)

\* C6 as amended: rendering fails exactly when the record lacks dst_method or
\* dst_javadoc (whatever the split and flags), or lacks src_javadoc while
\* with_ocomment is true; a failed call gives no prompt.
C6_FailsIffReadFieldMissing ==
    \A i \in 1..Len(rendered) :
        /\ (~rendered[i].res.ok) <=>
              \/ "dst_method" \notin DOMAIN record
              \/ "dst_javadoc" \notin DOMAIN record
              \/ (with_ocomment /\ "src_javadoc" \notin DOMAIN record)
        /\ (~rendered[i].res.ok) => rendered[i].res.val = <<>>

C6_Witness ==
    /\ Len(rendered) = 3
    /\ DOMAIN record = {"dst_method", "dst_javadoc"}
    /\ ~with_ocomment
    /\ with_inst
    /\ \A i \in 1..3 : rendered[i].res.ok
    /\ rendered[3].res.val = <<SOT, "user", NL, "Code:", NL>>
                                \o record["dst_method"] \o <<NL, EOT, NL>>

\* C10: the branch for both flags is never taken and with_inst has no effect:
\* every call gives what the same call with with_inst flipped gives.
C10_InstHasNoEffect ==
    \A i \in 1..Len(rendered) :
        /\ rendered[i].branch # "ocomment_inst"
        /\ rendered[i].res
             = prompt_template(record, rendered[i].split, with_ocomment, ~with_inst)

C10_Witness ==
    /\ with_ocomment
    /\ with_inst
    /\ Len(rendered) = 3
    /\ rendered[3].branch = "ocomment"
    /\ rendered[3].res.ok
    /\ record["src_javadoc"] = <<"model">>
    /\ rendered[3].res.val
         = <<SOT, "user", NL, "Old Comment:", NL, "model", NL, "New Code:", NL>>
           \o record["dst_method"] \o <<NL, EOT, NL>>

---------------------------------------------------------------------------
(* Properties of inference and run, checked under Spec *)

\* C7: inference gives one output per record of the test split, in input
\* order: while the loop runs, the outputs collected are those of the records
\* before the loop's position; each pass adds one entry at the end, generated
\* from the prompt of the record at that position; and what inference returns
\* has as many entries as test_ds has records.
C7_OnePerRecordInOrder ==
    /\ [](/\ pc = "generate" =>
                /\ rec_i <= Len(dataset["test"]) + 1
                /\ Len(generated_comment) = rec_i - 1
          /\ pc \in {"print", "done"} =>
                /\ Len(output_comments) = Len(dataset["test"])
                /\ output_comments = generated_comment)
    /\ [][generated_comment' # generated_comment =>
            /\ pc = "generate"
            /\ rec_i' = rec_i + 1
            /\ Len(generated_comment') = rec_i
            /\ SubSeq(generated_comment', 1, rec_i - 1) = generated_comment
            /\ generated_comment'[rec_i] = generated_text'
            /\ IsPrefix(<<BOS>> \o dataset["test"][rec_i]["prompt"], generate_out')
            /\ generated_text' = <<SelectSeq(
                    SubSeq(generate_out',
                           Len(dataset["test"][rec_i]["prompt"]) + 2,
                           Len(generate_out')),
                    IsOrdinary)>>]_vars

C7_Witness ==
    /\ pc = "done"
    /\ Len(dataset["test"]) = 2
    /\ dataset["test"][1]["prompt"] # dataset["test"][2]["prompt"]
    /\ output_comments = << <<<<"tok">>>>, <<<<>>>> >>

\* C8: the text of a test record is decoded from the new tokens only: what
\* generate returned is the prompt's input_ids followed by exactly the ids
\* that are decoded, so no prompt position is decoded, and at most
\* max_new_tokens ids are decoded.
C8_DecodesNewTokensOnly ==
    (pc \in {"generate", "print", "done"} /\ rec_i > 1) =>
        /\ encoding = <<BOS>> \o dataset["test"][rec_i - 1]["prompt"]
        /\ generate_out = encoding \o generated_ids
        /\ Len(generated_ids) <= max_new_tokens
        /\ generated_text = <<SelectSeq(generated_ids, IsOrdinary)>>
        /\ generated_comment[rec_i - 1] = generated_text

C8_Witness ==
    /\ pc = "generate"
    /\ rec_i = 2
    /\ max_new_tokens = 2
    /\ generated_ids = <<"tok", EOS>>
    /\ generated_text = << <<"tok">> >>
    /\ Len(generate_out) = Len(encoding) + 2

\* C9 as claimed: the results are lazy: when a record after the first is about
\* to be processed, the outputs of the records before it are with the
\* consumer (run's output_comments).
C9_LazyResults ==
    (pc = "generate" /\ rec_i <= Len(dataset["test"])) =>
        Len(output_comments) >= rec_i - 1

\* C9 as amended: the results are an eager list: the consumer has nothing
\* until every test record has been processed, then it has all the outputs at
\* once, and printing the list leaves it whole.
C9_EagerList ==
    /\ pc \in {"load", "build", "crashed", "train", "inference", "generate"} =>
            output_comments = <<>>
    /\ pc \in {"print", "done"} =>
            /\ rec_i = Len(dataset["test"]) + 1
            /\ Len(output_comments) = Len(dataset["test"])
            /\ output_comments = generated_comment
    /\ pc = "done" => printed = output_comments

C9_Witness ==
    /\ pc = "generate"
    /\ Len(dataset["test"]) = 2
    /\ rec_i = 2
    /\ Len(generated_comment) = 1
    /\ output_comments = <<>>

=============================================================================
